---- MODULE Spec2Model ----
(***************************************************************************)
(* The loopback proxy bridge of src/browser/transports/chromium_socket.ts. *)
(* One proxy request (a session) owns an upstream request object           *)
(* (net.request with dataSocket), a local net.Server and at most one       *)
(* accepted local connection.  Every handler the source registers is one   *)
(* action; the events themselves are raised by the two event sources the   *)
(* source listens to (the Chromium request/response and the node server    *)
(* and socket), which the model lets fire in any order those emitters      *)
(* allow.                                                                  *)
(***************************************************************************)
EXTENDS Naturals, Sequences, FiniteSets

\* ------------------------------------------------------------------ bounds
MaxConns == 2       \* inbound local connection attempts per session
MaxData  == 2       \* data chunks each event source emits per session
MaxAuth  == 1       \* authentication challenges and responses per session

Sessions      == {"s1", "s2"}     \* proxy requests (calls of createChromiumSocket)
RelaySessions == {"s1"}           \* the request followed in the single-session specifications
Chunks        == {"a", "b"}       \* payloads of data events
ConnIds       == 1..MaxConns
NoSession     == "none"           \* requestMap[url] === undefined
NoConn        == 0                \* clientConn === undefined
NoPort        == "noport"         \* no port reported or bound
NoProtocol    == "undefined"      \* a RequestProtocol field left out

\* ------------------------------------------------------------------- urls
\* A url string, by the parts of its text: scheme, host, port and path.
UrlString(proto, port, path) ==
    [protocol |-> proto, host |-> "example.com", port |-> port, path |-> path]

\* No request submitted yet, nothing reported yet.
NoUrl == UrlString("", "", "")

\* The url strings a caller may pass as req.url.
AllUrls ==
    {UrlString(proto, port, path) :
        proto \in {"rtmp:", "rtmps:", "http:", "https:", "ftp:", "RTMP:"},
        port \in {"", "80", "443", "1935"},
        path \in {"", "/stream"}}

\* The req.url values of the sessions followed through their life cycle.
Urls == {UrlString("rtmp:", "443", "/stream"), UrlString("http:", "", "")}

\* ProtocolMap, lines 22-31
ProtocolMap ==
    [p \in {"rtmp:", "rtmps:", "http:", "https:"} |->
        CASE p = "rtmp:"  -> [port |-> 1935, secureProtocol |-> "rtmps:", chromiumProtocol |-> "http:"]
          [] p = "rtmps:" -> [port |-> 443, secureProtocol |-> NoProtocol, chromiumProtocol |-> "https:"]
          [] p = "http:"  -> [port |-> 80, secureProtocol |-> "https:", chromiumProtocol |-> NoProtocol]
          [] p = "https:" -> [port |-> 443, secureProtocol |-> NoProtocol, chromiumProtocol |-> NoProtocol]]

\* String.prototype.toLowerCase on a scheme, as url.parse applies it.
ToLowerCase(proto) == IF proto = "RTMP:" THEN "rtmp:" ELSE proto

\* The schemes for which url.parse supplies the path "/" to a url that has none.
slashedProtocol == {"http:", "https:", "ftp:"}

\* parse of node's url module: the scheme in lower case, the path completed.
ParseUrl(u) ==
    LET proto == ToLowerCase(u.protocol)
    IN  [protocol |-> proto, host |-> u.host, port |-> u.port,
         pathname |-> IF proto \in slashedProtocol /\ u.path = "" THEN "/" ELSE u.path]

\* format of node's url module: the text of a parsed url.
FormatUrl(p) ==
    [protocol |-> p.protocol, host |-> p.host, port |-> p.port, path |-> p.pathname]

\* mappedUrl.protocol after lines 72-84.
MappedProtocol(originalUrl) ==
    IF originalUrl.protocol \in DOMAIN ProtocolMap
    THEN LET reqProtocol == ProtocolMap[originalUrl.protocol]
         IN  IF reqProtocol.chromiumProtocol # NoProtocol
             THEN IF originalUrl.port = "443" /\ reqProtocol.secureProtocol # NoProtocol
                  THEN IF reqProtocol.secureProtocol \in DOMAIN ProtocolMap
                       THEN ProtocolMap[reqProtocol.secureProtocol].chromiumProtocol
                       ELSE reqProtocol.chromiumProtocol
                  ELSE reqProtocol.chromiumProtocol
             ELSE originalUrl.protocol
    ELSE originalUrl.protocol

\* The url handed to net.request, line 85.
TransportUrl(u) ==
    LET originalUrl == ParseUrl(u)
    IN  FormatUrl([originalUrl EXCEPT !.protocol = MappedProtocol(originalUrl)])

ReportedMappedUrl(u) == TransportUrl(u)

\* The originalUrl reported to req.callback, line 104.
ReportedUrl(u) == FormatUrl(ParseUrl(u))

\* server.address().port of the session's server: every server gets a port of its own.
ServerPort(s) == IF s = "s1" THEN "p1" ELSE "p2"

VARIABLES
    requestMap,        \* url -> session whose net.request is registered, or NoSession
    reqUrl,            \* session -> req.url of its request
    transportUrl,      \* session -> the url handed to net.request
    upstream,          \* session -> "none" | "connecting" | "connected" | "closed"
    reqErrored,        \* session -> the request has emitted 'error'
    respErrored,       \* session -> the response stream has emitted 'error'
    authSent,          \* session -> request.authenticateSocket calls
    authRequested,     \* session -> proxy-socket-auth-requested notifications emitted
    readyCalls,        \* session -> req.callback calls
    readyPort,         \* session -> data.port of the last req.callback call
    readyUrl,          \* session -> data.originalUrl of the last req.callback call
    errorCalls,        \* session -> req.errorCallback calls
    closeSocketCalls,  \* session -> request.closeSocket calls
    upWritten,         \* session -> payloads passed to request.writeSocket, in order
    server,            \* session -> "none" | "binding" | "listening" | "closing" | "closed"
    srvErrored,        \* session -> the server has emitted 'error'
    bindFailed,        \* session -> that 'error' came before 'listening'
    serverCloseCalls,  \* session -> server.close calls
    boundPort,         \* session -> the port its server listens on, once it listens
    clientConn,        \* session -> the closure variable clientConn
    conn,              \* session -> connection id -> state of that socket
    connWritten,       \* session -> chunks passed to conn.write of the accepted socket
    acceptedAt,        \* session -> number of response chunks emitted before the accept
    localIn,           \* session -> chunks the accepted socket has emitted as 'data'
    upOutAll,          \* session -> chunks the response stream has emitted as 'data'
    authDropped,       \* authenticateChromiumSocket calls that found no request
    localWriteFailed,  \* session -> a conn.write of the relay has failed
    upWriteFailed      \* session -> a request.writeSocket of the relay has failed

upVars   == <<requestMap, reqUrl, transportUrl, upstream, reqErrored, respErrored,
             authSent, authRequested>>
cbVars   == <<readyCalls, readyPort, readyUrl, errorCalls, closeSocketCalls, upWritten>>
srvVars  == <<server, srvErrored, bindFailed, serverCloseCalls, boundPort>>
connVars == <<clientConn, conn, connWritten, acceptedAt>>
envVars  == <<localIn, upOutAll>>
auxVars  == <<authDropped, localWriteFailed, upWriteFailed>>
vars     == <<upVars, cbVars, srvVars, connVars, envVars, auxVars>>

\* const requestMap = {} and no request submitted
InitOver(urls) ==
    /\ requestMap = [u \in urls |-> NoSession]
    /\ reqUrl = [s \in Sessions |-> NoUrl]
    /\ transportUrl = [s \in Sessions |-> NoUrl]
    /\ upstream = [s \in Sessions |-> "none"]
    /\ reqErrored = [s \in Sessions |-> FALSE]
    /\ respErrored = [s \in Sessions |-> FALSE]
    /\ authSent = [s \in Sessions |-> 0]
    /\ authRequested = [s \in Sessions |-> 0]
    /\ readyCalls = [s \in Sessions |-> 0]
    /\ readyPort = [s \in Sessions |-> NoPort]
    /\ readyUrl = [s \in Sessions |-> NoUrl]
    /\ errorCalls = [s \in Sessions |-> 0]
    /\ closeSocketCalls = [s \in Sessions |-> 0]
    /\ upWritten = [s \in Sessions |-> <<>>]
    /\ server = [s \in Sessions |-> "none"]
    /\ srvErrored = [s \in Sessions |-> FALSE]
    /\ bindFailed = [s \in Sessions |-> FALSE]
    /\ serverCloseCalls = [s \in Sessions |-> 0]
    /\ boundPort = [s \in Sessions |-> NoPort]
    /\ clientConn = [s \in Sessions |-> NoConn]
    /\ conn = [s \in Sessions |-> [c \in ConnIds |-> "none"]]
    /\ connWritten = [s \in Sessions |-> <<>>]
    /\ acceptedAt = [s \in Sessions |-> 0]
    /\ localIn = [s \in Sessions |-> <<>>]
    /\ upOutAll = [s \in Sessions |-> <<>>]
    /\ authDropped = 0
    /\ localWriteFailed = [s \in Sessions |-> FALSE]
    /\ upWriteFailed = [s \in Sessions |-> FALSE]

Init == InitOver(Urls)

\* ------------------------------------------------------- upstream request
\* createChromiumSocket, lines 88-89 and 123: net.request, requestMap[req.url] =
\* request, request.createConnection().  A request object is created once.  The
\* remapped url of lines 70-85 goes to net.request only; the registry key is req.url.
CreateChromiumSocket(s, u) ==
    /\ upstream[s] = "none"
    /\ requestMap' = [requestMap EXCEPT ![u] = s]
    /\ reqUrl' = [reqUrl EXCEPT ![s] = u]
    /\ transportUrl' = [transportUrl EXCEPT ![s] = TransportUrl(u)]
    /\ upstream' = [upstream EXCEPT ![s] = "connecting"]
    /\ UNCHANGED <<reqErrored, respErrored, authSent, authRequested>>
    /\ UNCHANGED <<cbVars, srvVars, connVars, envVars>>
    /\ UNCHANGED auxVars

\* Which proxy events make the callback of lines 93-106 act.
WritesSocketOnClosed(ev) == ev = "Closed"

WritesSocket(ev) == ev = "Data"

ClosesSocketNever(ev) == FALSE

ClosesSocket(ev) == ev = "Closed"

CallsBackOnAnyEvent(ev) == TRUE

CallsBack(ev) == ev = "Listening"

\* The proxyCallback closure handed to startProxyConnection.
ProxyCallback(s, ev, payload) ==
    /\ upWritten' = IF WritesSocket(ev)
                    THEN [upWritten EXCEPT ![s] = Append(@, payload)]
                    ELSE upWritten
    /\ closeSocketCalls' = IF ClosesSocket(ev)
                           THEN [closeSocketCalls EXCEPT ![s] = @ + 1]
                           ELSE closeSocketCalls
    /\ readyCalls' = IF CallsBack(ev)
                     THEN [readyCalls EXCEPT ![s] = @ + 1]
                     ELSE readyCalls
    /\ readyPort' = IF CallsBack(ev)
                    THEN [readyPort EXCEPT ![s] = payload]
                    ELSE readyPort
    /\ readyUrl' = IF CallsBack(ev)
                   THEN [readyUrl EXCEPT ![s] = ReportedUrl(reqUrl[s])]
                   ELSE readyUrl

\* request.on('requestSocketConnected'): startProxyConnection creates the server,
\* registers the handlers and calls server.listen(0, 'localhost').  The event is
\* raised once, by a request that has neither failed nor been closed.
RequestSocketConnected(s) ==
    /\ upstream[s] = "connecting"
    /\ ~reqErrored[s]
    /\ closeSocketCalls[s] = 0
    /\ upstream' = [upstream EXCEPT ![s] = "connected"]
    /\ server' = [server EXCEPT ![s] = "binding"]
    /\ UNCHANGED <<requestMap, reqUrl, transportUrl, reqErrored, respErrored, authSent, authRequested>>
    /\ UNCHANGED <<srvErrored, bindFailed, serverCloseCalls, boundPort>>
    /\ UNCHANGED <<cbVars, connVars, envVars>>
    /\ UNCHANGED auxVars

\* request.on('socketAuthRequired'): one notification on the event bus.
SocketAuthRequired(s) ==
    /\ upstream[s] \in {"connecting", "connected"}
    /\ authRequested[s] < MaxAuth
    /\ authRequested' = [authRequested EXCEPT ![s] = @ + 1]
    /\ UNCHANGED <<requestMap, reqUrl, transportUrl, upstream, reqErrored, respErrored, authSent>>
    /\ UNCHANGED <<cbVars, srvVars, connVars, envVars>>
    /\ UNCHANGED auxVars

\* The guard of line 115; every request carries an errorCallback.
ReportsError(s) == TRUE

\* request.on('error'): closeSocket, then errorCallback.  Raised at most once, by a
\* request that is still open and that the controller has not closed.
RequestError(s) ==
    /\ upstream[s] \in {"connecting", "connected"}
    /\ ~reqErrored[s]
    /\ closeSocketCalls[s] = 0
    /\ reqErrored' = [reqErrored EXCEPT ![s] = TRUE]
    /\ closeSocketCalls' = [closeSocketCalls EXCEPT ![s] = @ + 1]
    /\ errorCalls' = IF ReportsError(s)
                     THEN [errorCalls EXCEPT ![s] = @ + 1]
                     ELSE errorCalls
    /\ UNCHANGED <<requestMap, reqUrl, transportUrl, upstream, respErrored, authSent, authRequested>>
    /\ UNCHANGED <<readyCalls, readyPort, readyUrl, upWritten>>
    /\ UNCHANGED <<srvVars, connVars, envVars>>
    /\ UNCHANGED auxVars

DeleteEntryForgotten(s) == requestMap

\* The registry after the 'close' handler of session s, line 121.
DeleteEntry(s) == [requestMap EXCEPT ![reqUrl[s]] = NoSession]

\* request.on('close'): the upstream session is over (closed by the controller, by
\* a failure or by the remote end); delete requestMap[req.url].
RequestClose(s) ==
    /\ upstream[s] \in {"connecting", "connected"}
    /\ upstream' = [upstream EXCEPT ![s] = "closed"]
    /\ requestMap' = DeleteEntry(s)
    /\ UNCHANGED <<reqUrl, transportUrl, reqErrored, respErrored, authSent, authRequested>>
    /\ UNCHANGED <<cbVars, srvVars, connVars, envVars>>
    /\ UNCHANGED auxVars

LookupAnyRequest(u) ==
    LET registered == {v \in DOMAIN requestMap : requestMap[v] # NoSession}
    IN  IF requestMap[u] # NoSession \/ registered = {}
        THEN requestMap[u]
        ELSE requestMap[CHOOSE v \in registered : TRUE]

\* requestMap[req.url], line 195
Lookup(u) == requestMap[u]

\* authenticateChromiumSocket: look the request up by url and, if there is one,
\* forward the credentials to it; otherwise return.
AuthenticateChromiumSocket(u) ==
    /\ LET request == Lookup(u)
       IN  IF request # NoSession
           THEN /\ authSent[request] < MaxAuth
                /\ authSent' = [authSent EXCEPT ![request] = @ + 1]
                /\ UNCHANGED authDropped
           ELSE /\ authDropped < MaxAuth
                /\ authDropped' = authDropped + 1
                /\ UNCHANGED authSent
    /\ UNCHANGED <<requestMap, reqUrl, transportUrl, upstream, reqErrored, respErrored, authRequested>>
    /\ UNCHANGED <<cbVars, srvVars, connVars, envVars>>
    /\ UNCHANGED <<localWriteFailed, upWriteFailed>>

\* ------------------------------------------------- local server and sockets
\* server.close(): stop accepting; 'close' follows once every connection has ended.
AfterServerClose(st) == IF st \in {"binding", "listening"} THEN "closing" ELSE st

\* Connections the server still counts: accepted sockets not yet torn down.
LiveConns(s) == {c \in ConnIds : conn[s][c] \in {"open", "ended"}}

\* The next inbound connection attempt of session s, if the bound leaves one.
NextConn(s) == {c \in ConnIds : /\ conn[s][c] = "none"
                                /\ \A b \in ConnIds : b < c => conn[s][b] # "none"}

\* server.maxConnections = 1, line 177
maxConnections == 1

\* server.on('listening'): proxyCallback(Listening) -> req.callback.
ServerListening(s) ==
    /\ server[s] = "binding"
    /\ server' = [server EXCEPT ![s] = "listening"]
    /\ boundPort' = [boundPort EXCEPT ![s] = ServerPort(s)]
    /\ ProxyCallback(s, "Listening", ServerPort(s))
    /\ UNCHANGED <<srvErrored, bindFailed, serverCloseCalls, errorCalls>>
    /\ UNCHANGED <<upVars, connVars, envVars>>
    /\ UNCHANGED auxVars

\* server.on('error'): server.close().  Raised at most once, by a failed bind or
\* by a failed accept of a listening server.
ServerError(s) ==
    /\ server[s] \in {"binding", "listening"}
    /\ ~srvErrored[s]
    /\ srvErrored' = [srvErrored EXCEPT ![s] = TRUE]
    /\ bindFailed' = [bindFailed EXCEPT ![s] = (server[s] = "binding")]
    /\ server' = [server EXCEPT ![s] = AfterServerClose(@)]
    /\ serverCloseCalls' = [serverCloseCalls EXCEPT ![s] = @ + 1]
    /\ UNCHANGED <<boundPort, upVars, cbVars, connVars, envVars>>
    /\ UNCHANGED auxVars

\* server.on('close'): proxyCallback(Closed) -> request.closeSocket().  Raised once,
\* when the server was closed and no connection is left.
ServerClose(s) ==
    /\ server[s] = "closing"
    /\ LiveConns(s) = {}
    /\ server' = [server EXCEPT ![s] = "closed"]
    /\ ProxyCallback(s, "Closed", NoPort)
    /\ UNCHANGED <<srvErrored, bindFailed, serverCloseCalls, boundPort, errorCalls>>
    /\ UNCHANGED <<upVars, connVars, envVars>>
    /\ UNCHANGED auxVars

EndConnForgotten(s, c) == [conn EXCEPT ![s][c] = "open"]

\* conn.end() on a socket that found a client already connected, line 165
EndConn(s, c) == [conn EXCEPT ![s][c] = "ended"]

NoClientConnUnchecked(s) == TRUE

\* if (!clientConn), line 136
NoClientConn(s) == clientConn[s] = NoConn

\* The connection listener of createServer, lines 135-167: the first socket becomes
\* clientConn and gets the handlers; any other is ended.
ServerConnection(s) ==
    /\ server[s] = "listening"
    /\ Cardinality(LiveConns(s)) < maxConnections
    /\ \E c \in NextConn(s) :
        IF NoClientConn(s)
        THEN /\ clientConn' = [clientConn EXCEPT ![s] = c]
             /\ conn' = [conn EXCEPT ![s][c] = "open"]
             /\ acceptedAt' = [acceptedAt EXCEPT ![s] = Len(upOutAll[s])]
             /\ connWritten' = [connWritten EXCEPT ![s] = <<>>]
        ELSE /\ conn' = EndConn(s, c)
             /\ UNCHANGED <<clientConn, acceptedAt, connWritten>>
    /\ UNCHANGED <<upVars, cbVars, srvVars, envVars>>
    /\ UNCHANGED auxVars

\* A connection attempt while the server holds maxConnections sockets: node drops
\* it before the connection listener runs.
ConnRefused(s) ==
    /\ server[s] = "listening"
    /\ Cardinality(LiveConns(s)) >= maxConnections
    /\ \E c \in NextConn(s) : conn' = [conn EXCEPT ![s][c] = "refused"]
    /\ UNCHANGED <<clientConn, connWritten, acceptedAt>>
    /\ UNCHANGED <<upVars, cbVars, srvVars, envVars>>
    /\ UNCHANGED auxVars

\* conn.on('data'): proxyCallback(Data) -> request.writeSocket(payload).
ConnData(s, d) ==
    /\ clientConn[s] # NoConn
    /\ conn[s][clientConn[s]] = "open"
    /\ Len(localIn[s]) < MaxData
    /\ localIn' = [localIn EXCEPT ![s] = Append(@, d)]
    /\ ProxyCallback(s, "Data", d)
    /\ UNCHANGED <<upOutAll, errorCalls>>
    /\ UNCHANGED <<upVars, srvVars, connVars>>
    /\ UNCHANGED auxVars

\* The accepted socket goes down (the peer closes it, it fails or times out): the
\* 'end', 'timeout' and 'error' handlers only log, the server stops counting it and
\* its 'close' event is pending.
ConnDown(s) ==
    /\ clientConn[s] # NoConn
    /\ conn[s][clientConn[s]] = "open"
    /\ conn' = [conn EXCEPT ![s][clientConn[s]] = "destroyed"]
    /\ UNCHANGED <<clientConn, connWritten, acceptedAt>>
    /\ UNCHANGED <<upVars, cbVars, srvVars, envVars>>
    /\ UNCHANGED auxVars

\* conn.on('close'): server.close().
ConnClose(s) ==
    /\ clientConn[s] # NoConn
    /\ conn[s][clientConn[s]] = "destroyed"
    /\ conn' = [conn EXCEPT ![s][clientConn[s]] = "closed"]
    /\ server' = [server EXCEPT ![s] = AfterServerClose(@)]
    /\ serverCloseCalls' = [serverCloseCalls EXCEPT ![s] = @ + 1]
    /\ UNCHANGED <<clientConn, connWritten, acceptedAt, srvErrored, bindFailed, boundPort>>
    /\ UNCHANGED <<upVars, cbVars, envVars>>
    /\ UNCHANGED auxVars

\* A socket ended by conn.end() (line 165) is closed once its peer ends too; it
\* carries no handler.
EndedConnClosed(s, c) ==
    /\ conn[s][c] = "ended"
    /\ conn' = [conn EXCEPT ![s][c] = "closed"]
    /\ UNCHANGED <<clientConn, connWritten, acceptedAt>>
    /\ UNCHANGED <<upVars, cbVars, srvVars, envVars>>
    /\ UNCHANGED auxVars

WriteToConnReordered(w, d) == <<d>> \o w

\* What conn.write(data) of the response 'data' handler (lines 158-162) adds.
WriteToConn(w, d) == Append(w, d)

\* response.on('data'): registered when the connection is accepted; before that the
\* event finds no handler.
ResponseData(s, d) ==
    /\ upstream[s] = "connected"
    /\ Len(upOutAll[s]) < MaxData
    /\ upOutAll' = [upOutAll EXCEPT ![s] = Append(@, d)]
    /\ connWritten' = IF clientConn[s] # NoConn
                      THEN [connWritten EXCEPT ![s] = WriteToConn(@, d)]
                      ELSE connWritten
    /\ UNCHANGED <<localIn, clientConn, conn, acceptedAt>>
    /\ UNCHANGED <<upVars, cbVars, srvVars>>
    /\ UNCHANGED auxVars

DestroyForgotten(st) == st

\* clientConn.destroy(), line 172: a socket that is up goes down.
Destroy(st) == IF st = "open" THEN "destroyed" ELSE st

\* response.on('error'): clientConn.destroy() if a client is connected, else
\* server.close().  Raised at most once, while the upstream session is open.
ResponseError(s) ==
    /\ upstream[s] = "connected"
    /\ ~respErrored[s]
    /\ respErrored' = [respErrored EXCEPT ![s] = TRUE]
    /\ IF clientConn[s] # NoConn
       THEN /\ conn' = [conn EXCEPT ![s][clientConn[s]] = Destroy(@)]
            /\ UNCHANGED <<server, serverCloseCalls>>
       ELSE /\ server' = [server EXCEPT ![s] = AfterServerClose(@)]
            /\ serverCloseCalls' = [serverCloseCalls EXCEPT ![s] = @ + 1]
            /\ UNCHANGED conn
    /\ UNCHANGED <<requestMap, reqUrl, transportUrl, upstream, reqErrored, authSent, authRequested>>
    /\ UNCHANGED <<clientConn, connWritten, acceptedAt, srvErrored, bindFailed, boundPort>>
    /\ UNCHANGED <<cbVars, envVars>>
    /\ UNCHANGED auxVars

\* response.on('data') whose conn.write(data) fails: node destroys the socket and
\* raises its 'error' (logged, lines 153-156) and then its 'close'.
ResponseWriteFails(s, d) ==
    /\ upstream[s] = "connected"
    /\ clientConn[s] # NoConn
    /\ conn[s][clientConn[s]] = "open"
    /\ Len(upOutAll[s]) < MaxData
    /\ upOutAll' = [upOutAll EXCEPT ![s] = Append(@, d)]
    /\ connWritten' = [connWritten EXCEPT ![s] = WriteToConn(@, d)]
    /\ conn' = [conn EXCEPT ![s][clientConn[s]] = "destroyed"]
    /\ localWriteFailed' = [localWriteFailed EXCEPT ![s] = TRUE]
    /\ UNCHANGED <<localIn, clientConn, acceptedAt, authDropped, upWriteFailed>>
    /\ UNCHANGED <<upVars, cbVars, srvVars>>

\* conn.on('data') whose request.writeSocket(payload) fails: the callback of lines
\* 94-97 neither checks nor catches anything; the request raises 'error' later.
SocketWriteFails(s, d) ==
    /\ clientConn[s] # NoConn
    /\ conn[s][clientConn[s]] = "open"
    /\ Len(localIn[s]) < MaxData
    /\ localIn' = [localIn EXCEPT ![s] = Append(@, d)]
    /\ ProxyCallback(s, "Data", d)
    /\ upWriteFailed' = [upWriteFailed EXCEPT ![s] = TRUE]
    /\ UNCHANGED <<upOutAll, errorCalls, authDropped, localWriteFailed>>
    /\ UNCHANGED <<upVars, srvVars, connVars>>

\* ---------------------------------------------------------- specifications
\* The handlers and events of one session that decide its life cycle, its port
\* dialled by at most one client.
Core(s) ==
    \/ \E u \in Urls : CreateChromiumSocket(s, u)
    \/ RequestSocketConnected(s)
    \/ RequestError(s)
    \/ RequestClose(s)
    \/ ServerListening(s)
    \/ ServerError(s)
    \/ ServerClose(s)
    \/ clientConn[s] = NoConn /\ ServerConnection(s)
    \/ ConnDown(s)
    \/ ConnClose(s)
    \/ ResponseError(s)

\* Further clients dialling the port.
Redial(s) ==
    \/ clientConn[s] # NoConn /\ ServerConnection(s)
    \/ ConnRefused(s)
    \/ \E c \in ConnIds : EndedConnClosed(s, c)

\* The byte relay and the authentication challenges of one session.
Relay(s) ==
    \/ \E d \in Chunks : ConnData(s, d)
    \/ \E d \in Chunks : ResponseData(s, d)
    \/ SocketAuthRequired(s)

\* One session with every handler and event of its own.
Next == \E s \in RelaySessions : Core(s) \/ Redial(s) \/ Relay(s)

Spec == Init /\ [][Next]_vars

\* Concurrent sessions sharing the registry.
RegistryNext ==
    \/ \E s \in Sessions : Core(s)
    \/ \E u \in Urls : AuthenticateChromiumSocket(u)

RegistrySpec == Init /\ [][RegistryNext]_vars

\* The event loop dispatches every pending event: a server asked to listen gets
\* 'listening' (or 'error'), a socket that went down gets its 'close', a closed
\* server with no connection left gets its 'close', a socket the server ended is
\* closed by its peer, and a request the controller closed or that failed gets its
\* 'close'.  Nothing obliges a client to dial or to hang up, nor the upstream
\* session to fail.
Fairness ==
    \A s \in RelaySessions :
        /\ WF_vars(ServerListening(s) \/ ServerError(s))
        /\ WF_vars(ConnClose(s))
        /\ WF_vars(ServerClose(s))
        /\ WF_vars(\E c \in ConnIds : EndedConnClosed(s, c))
        /\ WF_vars((closeSocketCalls[s] > 0 \/ reqErrored[s]) /\ RequestClose(s))

\* The life cycle of one session under that scheduling.  The relay and the
\* authentication events change no variable the life cycle reads.
FairNext == \E s \in RelaySessions : Core(s) \/ Redial(s)

FairSpec == Init /\ [][FairNext]_vars /\ Fairness

\* A request whose writeSocket failed raises its 'error', unless the controller
\* closed it first.
WriteFairness ==
    \A s \in RelaySessions : WF_vars(upWriteFailed[s] /\ RequestError(s))

\* The life cycle of one session whose relay meets failing writes.
WriteFailNext ==
    \E s \in RelaySessions :
        \/ Core(s)
        \/ Redial(s)
        \/ \E d \in Chunks : ResponseWriteFails(s, d)
        \/ \E d \in Chunks : SocketWriteFails(s, d)

WriteFailSpec == Init /\ [][WriteFailNext]_vars /\ Fairness /\ WriteFairness

\* Requests of every url a caller may pass, up to the call of net.request.
RemapInit == InitOver(AllUrls)

RemapNext == \E s \in Sessions, u \in AllUrls : CreateChromiumSocket(s, u)

RemapSpec == RemapInit /\ [][RemapNext]_vars

\* ------------------------------------------------------------------ claims
\* The accepted socket of session s is up.
ClientOpen(s) == clientConn[s] # NoConn /\ conn[s][clientConn[s]] = "open"

\* The accepted socket of session s has gone down.
ClientGone(s) == clientConn[s] # NoConn /\ conn[s][clientConn[s]] \in {"destroyed", "closed"}

\* C1: req.callback (onReady) is invoked at most once per request, whatever the
\* upstream, listener and local-connection events.
C1_ReadyAtMostOnce == \A s \in Sessions : readyCalls[s] <= 1

\* onReady was called and the session then ran to the end of its teardown.
C1_Witness ==
    \E s \in Sessions : /\ readyCalls[s] = 1
                        /\ ClientGone(s)
                        /\ server[s] = "closed"
                        /\ upstream[s] = "closed"

\* C2 (as claimed): req.errorCallback is invoked only while req.callback has never
\* been invoked for that request.
C2_ErrorOnlyBeforeReady ==
    [][\A s \in Sessions : errorCalls'[s] > errorCalls[s] => readyCalls[s] = 0]_vars

\* C3: the first accepted connection becomes clientConn and stays it; no other
\* socket is ever left open, and an attempt made once clientConn is set is ended or
\* refused at once, also after the first connection has gone down.
C3_SingleLocalConn ==
    [][\A s \in Sessions :
        /\ clientConn[s] # NoConn => clientConn'[s] = clientConn[s]
        /\ \A c \in ConnIds : conn'[s][c] = "open" => c = clientConn'[s]
        /\ \A c \in ConnIds :
              (clientConn[s] # NoConn /\ conn[s][c] = "none" /\ conn'[s][c] # "none")
                  => conn'[s][c] \in {"ended", "refused"}]_vars

\* A second client got through to the connection listener after the first socket
\* went down, and was ended.
C3_Witness ==
    \E s \in Sessions : \E c \in ConnIds :
        /\ ClientGone(s)
        /\ c # clientConn[s]
        /\ conn[s][c] = "ended"

C5_TeardownOnce ==
    \A s \in Sessions : closeSocketCalls[s] <= 1 /\ serverCloseCalls[s] <= 1

\* The session holds nothing any more: no listener, no local socket, no registry
\* entry, and the upstream session is over.
TornDown(s) ==
    /\ upstream[s] = "closed"
    /\ server[s] \in {"none", "closed"}
    /\ \A c \in ConnIds : conn[s][c] # "open"
    /\ \A u \in Urls : requestMap[u] # s

\* C6 (as claimed): after an upstream error or an upstream close the session
\* eventually holds no listener, no local connection and no registry entry.
C6_NoHalfClosed ==
    \A s \in RelaySessions :
        (reqErrored[s] \/ respErrored[s] \/ upstream[s] = "closed") ~> TornDown(s)

\* C7: the payloads written upstream are the chunks received from the accepted
\* local connection, in the same order, none dropped, duplicated or changed.
C7_LocalToUpstream == \A s \in Sessions : upWritten[s] = localIn[s]

\* Two different chunks went upstream.
C7_Witness ==
    \E s \in Sessions : /\ Len(upWritten[s]) >= 2
                        /\ upWritten[s][1] # upWritten[s][2]

\* C8: while the accepted connection is up, the chunks written to it are the
\* chunks the response stream emitted since the accept, in the same order; nothing
\* is written to a local socket before one is accepted.
C8_UpstreamToLocal ==
    \A s \in Sessions :
        /\ clientConn[s] = NoConn => connWritten[s] = <<>>
        /\ ClientOpen(s) =>
              connWritten[s] = SubSeq(upOutAll[s], acceptedAt[s] + 1, Len(upOutAll[s]))

\* Two different chunks reached the open local connection.
C8_Witness ==
    \E s \in Sessions : /\ ClientOpen(s)
                        /\ Len(connWritten[s]) >= 2
                        /\ connWritten[s][1] # connWritten[s][2]

\* C9 (as claimed): when the listener is closed and the controller has called
\* closeSocket, requestMap holds no entry pointing at the session.
C9_ClosedMeansUnregistered ==
    \A s \in Sessions :
        (server[s] = "closed" /\ closeSocketCalls[s] >= 1)
            => \A u \in Urls : requestMap[u] # s

\* C9 (amended): once the upstream request has emitted 'close', requestMap holds no
\* entry pointing at the session, so authenticate cannot reach it.
C9_RequestClosedUnregistered ==
    \A s \in Sessions : upstream[s] = "closed" => \A u \in Urls : requestMap[u] # s

\* A session is closed on both sides while another request is registered under the
\* same url.
C9_Witness ==
    \E s \in Sessions : \E r \in Sessions :
        /\ upstream[s] = "closed"
        /\ server[s] = "closed"
        /\ closeSocketCalls[s] >= 1
        /\ r # s
        /\ reqUrl[r] = reqUrl[s]
        /\ requestMap[reqUrl[s]] = r

\* The upstream request failed before it connected, or the listener failed to bind.
PreConnectFailure(s) ==
    \/ bindFailed[s]
    \/ reqErrored[s] /\ server[s] = "none"

\* C10 (as claimed): every pre-connect failure leads to req.errorCallback being
\* invoked, req.callback never, and the registry entry removed.
C10_PreConnectFailureReported ==
    \A s \in RelaySessions :
        PreConnectFailure(s) ~>
            (errorCalls[s] >= 1 /\ readyCalls[s] = 0 /\ \A u \in Urls : requestMap[u] # s)


\* C11: an authenticate call for a url that has no registered request is a no-op:
\* it changes neither the registry nor any session's state, forwards no
\* credentials and reports no error.
C11_AuthUnknownIsNoOp ==
    [][\A u \in Urls :
          (requestMap[u] = NoSession /\ AuthenticateChromiumSocket(u))
          => UNCHANGED <<upVars, cbVars, srvVars, connVars, envVars,
                         localWriteFailed, upWriteFailed>>]_vars

\* An authenticate call found no request while another url's session was in flight.
C11_Witness ==
    /\ authDropped >= 1
    /\ \E s \in Sessions : /\ upstream[s] \in {"connecting", "connected"}
                           /\ requestMap[reqUrl[s]] = s
                           /\ authSent[s] = 0

\* C12: rejecting a further local connection is silent and leaves the session
\* untouched: the socket is ended or refused, nothing is relayed to or from it, no
\* callback and no event-bus notification is made, and the accepted connection, the
\* listener and the upstream session are as they were.
C12_DuplicateRejectedSilently ==
    [][\A s \in RelaySessions, c \in ConnIds :
          (clientConn[s] # NoConn /\ conn[s][c] = "none" /\ conn'[s][c] # "none")
          => /\ conn'[s][c] \in {"ended", "refused"}
             /\ \A b \in ConnIds \ {c} : conn'[s][b] = conn[s][b]
             /\ UNCHANGED <<clientConn, connWritten, acceptedAt>>
             /\ UNCHANGED <<upVars, cbVars, srvVars, envVars, auxVars>>]_vars

\* A further connection was ended or refused on a session that is ready, has
\* relayed local data and has reported no error.
C12_Witness ==
    \E s \in RelaySessions, c \in ConnIds :
        /\ conn[s][c] \in {"ended", "refused"}
        /\ c # clientConn[s]
        /\ server[s] = "listening"
        /\ upstream[s] = "connected"
        /\ readyCalls[s] = 1
        /\ errorCalls[s] = 0
        /\ Len(upWritten[s]) >= 1

\* C13 as stated: whenever req.callback has been called, the upstream session had
\* connected and the listener had announced 'listening', and the call reported the
\* listener's port and the request's url as it was passed in.
C13_ReadyReportsTargetUrl ==
    \A s \in RelaySessions :
        readyCalls[s] >= 1
        => /\ upstream[s] \in {"connected", "closed"}
           /\ boundPort[s] # NoPort
           /\ readyPort[s] = boundPort[s]
           /\ readyUrl[s] = reqUrl[s]

\* C13: whenever req.callback has been called, the upstream session had connected
\* and the listener had announced 'listening', and the call reported the listener's
\* port and the request's url after parse and format.
C13_ReadyAfterConnectedAndListening ==
    \A s \in RelaySessions :
        readyCalls[s] >= 1
        => /\ upstream[s] \in {"connected", "closed"}
           /\ server[s] # "none"
           /\ boundPort[s] # NoPort
           /\ readyPort[s] = boundPort[s]
           /\ readyUrl[s] = FormatUrl(ParseUrl(reqUrl[s]))

\* req.callback reported a url that differs from the text of req.url.
C13_Witness ==
    \E s \in RelaySessions : /\ readyCalls[s] >= 1
                             /\ readyPort[s] = ServerPort(s)
                             /\ readyUrl[s] # reqUrl[s]

\* C14: a request whose scheme defines a secure variant (rtmp, http) goes to
\* net.request under https: when its port is 443, and under the scheme's plain
\* transport scheme (http:) for every other port.
C14_SecurePortSelectsSecureTransport ==
    \A s \in Sessions :
        reqUrl[s] # NoUrl
        => LET originalUrl == ParseUrl(reqUrl[s])
           IN  originalUrl.protocol \in {"rtmp:", "http:"}
               => transportUrl[s].protocol =
                      IF originalUrl.port = "443" THEN "https:" ELSE "http:"

\* C15: a session in flight keeps its own registry entry: no other session's
\* opening or teardown removes or replaces it.
C15_InFlightSessionRegistered ==
    \A s \in Sessions :
        upstream[s] \in {"connecting", "connected"} => requestMap[reqUrl[s]] = s

\* C16: an authenticate call for the url of a session that is open (connected or
\* not yet) forwards the credentials to that session's request.
C16_AuthReachesOpenSession ==
    [][\A s \in Sessions :
          (upstream[s] \in {"connecting", "connected"}
           /\ AuthenticateChromiumSocket(reqUrl[s]))
          => authSent'[s] = authSent[s] + 1]_vars

C18_WriteFailureTearsDown ==
    \A s \in RelaySessions :
        (localWriteFailed[s] \/ upWriteFailed[s])
        ~> (TornDown(s) /\ server[s] = "closed" /\ closeSocketCalls[s] >= 1)

\* C19: once request.closeSocket() has been called, request.writeSocket is not
\* called any more.
C19_NoWriteAfterCloseSocket ==
    [][\A s \in RelaySessions :
          closeSocketCalls[s] >= 1 => upWritten'[s] = upWritten[s]]_vars

\* C20: once the accepted socket has closed or been destroyed, conn.write is not
\* called on it any more.
C20_NoWriteAfterLocalClose ==
    [][\A s \in RelaySessions :
          ClientGone(s) => connWritten'[s] = connWritten[s]]_vars

====
